---- MODULE Spec2Model ----
(***************************************************************************)
(* Field tagging of log lines by ordinal delimiter alignment.              *)
(* The model follows the two-bound program (src/unnamed/part_000): the     *)
(* classes Bound, Selection, Line, Bounds, SaveTag and App.  Strings are   *)
(* sequences of one-character strings; JavaScript indices are 0-based, so  *)
(* charAt(text, i) reads the 1-based TLA+ sequence at i + 1.               *)
(***************************************************************************)
EXTENDS Integers, Sequences, FiniteSets, TLC

\* ---- bounds of the model ------------------------------------------------
\* longest text of the free line of the batch
MaxLen == 2

\* ---- Maybe (true-myth) --------------------------------------------------
Nothing == [tag |-> "Nothing"]

Just(v) == [tag |-> "Just", value |-> v]

isJust(m) == m.tag = "Just"

isNothing(m) == m.tag = "Nothing"

\* ---- enum BoundChar -----------------------------------------------------
Bracket == "["

Quote == "\""

Space == " "

\* Object.keys(BoundChar) in declaration order, mapped to their values
BoundChar == <<Bracket, Quote, Space>>

\* ---- JavaScript string primitives ---------------------------------------
\* text[i]: undefined outside 0 .. length-1
charAt(text, i) == IF i >= 0 /\ i < Len(text) THEN text[i + 1] ELSE "undefined"

Min(a, b) == IF a < b THEN a ELSE b

Max(a, b) == IF a > b THEN a ELSE b

\* String.prototype.substring(a, b): both arguments clamped into
\* 0 .. length, and swapped when a > b
substring(text, a, b) ==
    LET ca == Max(0, Min(a, Len(text)))
        cb == Max(0, Min(b, Len(text)))
        lo == Min(ca, cb)
        hi == Max(ca, cb)
    IN  SubSeq(text, lo + 1, hi)

\* String.prototype.substring(a): to the end of the string
substringFrom(text, a) == substring(text, a, Len(text))

RECURSIVE indexOfFrom(_, _, _)
indexOfFrom(text, ch, i) ==
    IF i >= Len(text) THEN -1
    ELSE IF charAt(text, i) = ch THEN i
    ELSE indexOfFrom(text, ch, i + 1)

\* String.prototype.indexOf(ch): first index of ch, or -1
indexOf(text, ch) == indexOfFrom(text, ch, 0)

RECURSIVE splitFrom(_, _, _, _)
splitFrom(text, sep, i, piece) ==
    IF i >= Len(text) THEN <<piece>>
    ELSE IF charAt(text, i) = sep
         THEN <<piece>> \o splitFrom(text, sep, i + 1, <<>>)
         ELSE splitFrom(text, sep, i + 1, Append(piece, charAt(text, i)))

\* String.prototype.split(sep) for a one-character separator
split(text, sep) == splitFrom(text, sep, 0, <<>>)

\* ---- class Bound --------------------------------------------------------
Bound(boundary, index) == [boundary |-> boundary, index |-> index]

RECURSIVE columnLoop(_, _, _, _)
columnLoop(b, text, i, count) ==
    IF i >= Len(text) THEN count
    ELSE IF charAt(text, i) = b.boundary
         THEN IF b.index = count THEN i
              ELSE columnLoop(b, text, i + 1, count + 1)
         ELSE columnLoop(b, text, i + 1, count)

\* column with the occurrences counted from one
columnOneBased(b, text) == columnLoop(b, text, 0, 1)

\* Bound.column(text)
column(b, text) == columnLoop(b, text, 0, 0)

\* Bound.closingCharacter()
closingCharacter(b) ==
    IF b.boundary = Bracket THEN "]"
    ELSE IF b.boundary = Quote THEN "\""
    ELSE IF b.boundary = Space THEN " "
    ELSE "undefined"

\* Bound.equals(maybeOther)
equals(b, maybeOther) ==
    IF isNothing(maybeOther) THEN FALSE
    ELSE b.boundary = maybeOther.value.boundary /\ b.index = maybeOther.value.index

\* ---- class Selection ----------------------------------------------------
Selection(start, stop) == [start |-> start, stop |-> stop]

contains(s, index) == index >= s.start /\ index <= s.stop

\* ---- class Line ---------------------------------------------------------
EmptyMap == [k \in {} |-> <<>>]

Line(text, tags, selection) == [text |-> text, tags |-> tags, selection |-> selection]

\* Line.fromArray(data)
fromArray(data) == [i \in 1..Len(data) |-> Line(data[i], EmptyMap, Nothing)]

\* ---- class Bounds -------------------------------------------------------
\* new Bounds()
NewBounds == [left |-> Nothing, right |-> Nothing]

\* Bounds.empty()
empty(bs) == isNothing(bs.left) /\ isNothing(bs.right)

\* indexOfBound counting the pieces of the split, not the separators
indexOfBoundPieces(text, boundary) == Len(split(text, boundary))

\* Bounds.indexOfBound(text, boundary)
indexOfBound(text, boundary) == Len(split(text, boundary)) - 1

\* the first key of BoundChar whose character is text[index], 0 if none
matchKey(text, index) ==
    LET ks == {k \in 1..Len(BoundChar) : charAt(text, index) = BoundChar[k]}
    IN  IF ks = {} THEN 0 ELSE CHOOSE k \in ks : \A j \in ks : k <= j

\* Bounds.closestBound(text, index, increment).  The recursion stops only on
\* a delimiter or on index <= 0; once a forward scan has left the string
\* every further text[index] is undefined and index stays positive, so the
\* recursion never returns and the engine throws RangeError.
RECURSIVE closestBound(_, _, _)
closestBound(text, index, increment) ==
    LET key == matchKey(text, index)
    IN  IF key # 0
        THEN Just(Bound(BoundChar[key], indexOfBound(substring(text, 0, index), BoundChar[key])))
        ELSE IF index > 0
             THEN IF increment > 0 /\ index + increment >= Len(text)
                  THEN [tag |-> "RangeError"]
                  ELSE closestBound(text, index + increment, increment)
             ELSE Nothing

\* findSelection with the implicit stop on the closing character itself
findSelectionThroughCloser(bs, text) ==
    IF empty(bs) THEN Nothing
    ELSE LET left == bs.left.value
             leftColumn == column(left, text)
             sub == substringFrom(text, leftColumn + 1)
         IN  Just(IF isNothing(bs.right)
                  THEN Selection(leftColumn + 1, leftColumn + 1 + indexOf(sub, closingCharacter(left)))
                  ELSE Selection(leftColumn + 1, column(bs.right.value, text) - 1))

\* findSelection with the stop taken one character short
findSelectionStopsShort(bs, text) ==
    IF empty(bs) THEN Nothing
    ELSE LET left == bs.left.value
             leftColumn == column(left, text)
             sub == substringFrom(text, leftColumn + 1)
         IN  Just(IF isNothing(bs.right)
                  THEN Selection(leftColumn + 1, leftColumn + indexOf(sub, closingCharacter(left)) - 1)
                  ELSE Selection(leftColumn + 1, column(bs.right.value, text) - 2))

\* Bounds.findSelection(text)
findSelection(bs, text) ==
    IF empty(bs) THEN Nothing
    ELSE LET left == bs.left.value
             leftColumn == column(left, text)
             sub == substringFrom(text, leftColumn + 1)
         IN  Just(IF isNothing(bs.right)
                  THEN Selection(leftColumn + 1, leftColumn + indexOf(sub, closingCharacter(left)))
                  ELSE Selection(leftColumn + 1, column(bs.right.value, text) - 1))

\* Bounds.select(lines)
select(bs, ls) == [i \in 1..Len(ls) |-> findSelection(bs, ls[i].text)]

\* findNext with the restart keeping the right bound of the abandoned field
findNextKeepsRight(bs, ls, row, col) ==
    LET text == ls[row + 1].text
        closestLeft == closestBound(text, col, -1)
    IN  IF empty(bs) THEN [left |-> closestLeft, right |-> Nothing]
        ELSE IF ~equals(bs.left.value, closestLeft)
             THEN [left |-> closestLeft, right |-> bs.right]
        ELSE IF isJust(bs.left) /\ isJust(bs.right) THEN NewBounds
        ELSE LET closestRight == closestBound(text, col, 1)
             IN  IF closestRight.tag = "RangeError" THEN [tag |-> "RangeError"]
                 ELSE [left |-> closestLeft, right |-> closestRight]

\* Bounds.findNext(lines, row, column): the new Bounds, or the RangeError
\* thrown by the forward scan
findNext(bs, ls, row, col) ==
    LET text == ls[row + 1].text
        closestLeft == closestBound(text, col, -1)
    IN  IF empty(bs) THEN [left |-> closestLeft, right |-> Nothing]
        ELSE IF ~equals(bs.left.value, closestLeft)
             THEN [left |-> closestLeft, right |-> Nothing]
        ELSE IF isJust(bs.left) /\ isJust(bs.right) THEN NewBounds
        ELSE LET closestRight == closestBound(text, col, 1)
             IN  IF closestRight.tag = "RangeError" THEN [tag |-> "RangeError"]
                 ELSE [left |-> closestLeft, right |-> closestRight]

\* ---- inputs -------------------------------------------------------------
\* the characters of a line: the three delimiters, the closing bracket and
\* one ordinary character
Alphabet == {"[", "]", "\"", " ", "a"}

Texts(n) == UNION {[1..k -> Alphabet] : k \in 0..n}

\* two reference lines: a bracket field at an offset, a quoted field
\* followed by a space
Corpus == {<<"a", "[", "a", "]">>, <<"\"", "a", "\"", " ">>}

\* const data: the array given to Line.fromArray; the first line is any text
\* up to MaxLen, the second a reference line
Batches == {<<t1, t2>> : t1 \in Texts(MaxLen), t2 \in Corpus}

\* the values typed into the name input of the form
TagNames == {"ip"}

\* ---- state --------------------------------------------------------------
\* lines, bounds: the fields of App; saveBounds: the field bounds of SaveTag;
\* last: the event handled last, with the bounds it found
VARIABLES lines, bounds, saveBounds, last

vars == <<lines, bounds, saveBounds, last>>

Event(op, row, col, name, prev, thrown) ==
    [op |-> op, row |-> row, column |-> col, name |-> name, prev |-> prev, thrown |-> thrown]

\* the lines App.update stores: each line with the selection of the bounds
updated(ls, bs) ==
    LET selections == select(bs, ls)
    IN  [i \in 1..Len(ls) |-> [ls[i] EXCEPT !.selection = selections[i]]]

\* left.unsafelyUnwrap() in Bounds.findSelection throws on bounds that are
\* not empty() and have no left
unwrapThrows(bs) == ~empty(bs) /\ isNothing(bs.left)

\* App.update storing the lines as given, without select
AppUpdateKeepsSelections(ls, bs) ==
    /\ bounds' = bs
    /\ lines' = ls
    /\ saveBounds' = bs

\* App.update({lines, bounds}), with SaveTag.update(bounds); this.bounds is
\* assigned first, and a throw of select ends the update there
AppUpdate(ls, bs) ==
    /\ bounds' = bs
    /\ IF unwrapThrows(bs) /\ Len(ls) > 0
       THEN UNCHANGED <<lines, saveBounds>>
       ELSE /\ lines' = updated(ls, bs)
            /\ saveBounds' = bs

\* new App(), then app.update({lines: Line.fromArray(data), bounds: new Bounds()})
Init ==
    /\ \E data \in Batches : lines = updated(fromArray(data), NewBounds)
    /\ bounds = NewBounds
    /\ saveBounds = NewBounds
    /\ last = Event("init", 0, 0, "", NewBounds, FALSE)

\* rows.el.onclick on the span of (row, column) -> App.selectAtChar; a
\* RangeError thrown by findNext ends the handler before App.update
Click(row, col) ==
    LET next == findNext(bounds, lines, row, col)
        thrown == "tag" \in DOMAIN next
    IN  /\ last' = Event("click", row, col, "", bounds, thrown)
        /\ IF thrown
           THEN UNCHANGED <<lines, bounds, saveBounds>>
           ELSE AppUpdate(lines, next)

\* App.addTag with line.tags replaced by a map of the one new entry
addTagReplacing(ls, bs, name) ==
    LET selections == select(bs, ls)
    IN  [i \in 1..Len(ls) |->
            LET s == selections[i]
            IN  IF isJust(s)
                THEN [ls[i] EXCEPT !.tags =
                         (name :> substring(ls[i].text, s.value.start, s.value.stop + 1))]
                ELSE ls[i]]

\* App.addTag(name): the lines after tagging
addTag(ls, bs, name) ==
    LET selections == select(bs, ls)
    IN  [i \in 1..Len(ls) |->
            LET s == selections[i]
            IN  IF isJust(s)
                THEN [ls[i] EXCEPT !.tags =
                         (name :> substring(ls[i].text, s.value.start, s.value.stop + 1)) @@ ls[i].tags]
                ELSE ls[i]]

\* onsubmit calling back without the test of the bounds, every line without
\* a selection tagged with its whole text
SubmitUnguarded(name) ==
    /\ last' = Event("save", 0, 0, name, bounds, FALSE)
    /\ AppUpdate([i \in 1..Len(lines) |->
                     IF isJust(select(bounds, lines)[i]) THEN addTag(lines, bounds, name)[i]
                     ELSE [lines[i] EXCEPT !.tags = (name :> lines[i].text) @@ lines[i].tags]],
                 NewBounds)

\* onsubmit with App.addTag ending in App.update with the bounds it had
SubmitKeepsBounds(name) ==
    /\ last' = Event("save", 0, 0, name, bounds, FALSE)
    /\ IF ~empty(saveBounds)
       THEN AppUpdate(addTag(lines, bounds, name), bounds)
       ELSE UNCHANGED <<lines, bounds, saveBounds>>

\* SaveTag.el.onsubmit with the name typed in the form; the callback is
\* App.addTag, which ends in App.update with new Bounds()
Submit(name) ==
    /\ last' = Event("save", 0, 0, name, bounds, FALSE)
    /\ IF ~empty(saveBounds)
       THEN AppUpdate(addTag(lines, bounds, name), NewBounds)
       ELSE UNCHANGED <<lines, bounds, saveBounds>>

\* the spans of div.rows: one per character of each line
Rows == 0..(Len(lines) - 1)

Columns(row) == 0..(Len(lines[row + 1].text) - 1)

Next ==
    \/ \E row \in Rows : \E col \in Columns(row) : Click(row, col)
    \/ \E name \in TagNames : Submit(name)

Spec == Init /\ [][Next]_vars

\* ---- vocabulary of the properties ------------------------------------------
\* the three states of the refinement
IsEmpty(bs) == bs.left = Nothing /\ bs.right = Nothing

IsLeftOnly(bs) == bs.left # Nothing /\ bs.right = Nothing

IsComplete(bs) == bs.left # Nothing /\ bs.right # Nothing

Delimiters == {"[", "\"", " "}

\* the 0-based indices of the character ch in text
Occurrences(text, ch) == {i \in 0..(Len(text) - 1) : text[i + 1] = ch}

\* the index of the n-th (0-based) occurrence of ch in text
NthOccurrence(text, ch, n) ==
    CHOOSE i \in Occurrences(text, ch) :
        Cardinality({j \in Occurrences(text, ch) : j < i}) = n

\* the text has the occurrence the bound b names
Realizes(text, b) == Cardinality(Occurrences(text, b.boundary)) > b.index

Closer(ch) == IF ch = "[" THEN "]" ELSE ch

\* the indices after L of the closing character of kind ch
ClosersAfter(text, ch, L) == {i \in Occurrences(text, Closer(ch)) : i > L}

FirstCloserAfter(text, ch, L) ==
    CHOOSE i \in ClosersAfter(text, ch, L) : \A j \in ClosersAfter(text, ch, L) : i <= j

\* the characters of text at the indices start .. stop
InclusiveSlice(text, start, stop) ==
    [k \in 1..Cardinality({i \in start..stop : i >= 0 /\ i < Len(text)}) |->
        text[(IF start < 0 THEN 0 ELSE start) + k]]

\* the delimiter nearest to column c at or before it: the greatest index
\* i <= c holding a delimiter, as a bound (kind, occurrences before i)
DelimitersUpTo(text, c) == {i \in 0..c : i < Len(text) /\ text[i + 1] \in Delimiters}

BackwardNearest(text, c) ==
    IF DelimitersUpTo(text, c) = {} THEN Nothing
    ELSE LET i == CHOOSE k \in DelimitersUpTo(text, c) : \A j \in DelimitersUpTo(text, c) : j <= k
         IN  Just([boundary |-> text[i + 1],
                   index |-> Cardinality({j \in Occurrences(text, text[i + 1]) : j < i})])

\* the line the last click was on
ClickedText == lines[last.row + 1].text

\* the last event was a click that ran to its end
Clicked == last.op = "click" /\ ~last.thrown

\* the last event was a save made with non-empty bounds
Saved == last.op = "save" /\ ~IsEmpty(last.prev)

\* ---- C1 ----------------------------------------------------------------------
\* C1: after a click made in the Complete state whose backward-nearest bound
\* equals the current left bound, the bounds are the bounds before the click.
C1_CompleteClickIdempotent ==
    (Clicked /\ IsComplete(last.prev)
        /\ BackwardNearest(ClickedText, last.column) = last.prev.left)
    => bounds = last.prev

\* ---- C2 ----------------------------------------------------------------------
\* C2: after a click made in the Complete state whose backward-nearest bound
\* exists and differs from the current left bound, the bounds are LeftOnly:
\* left is that nearest bound and right is absent.
C2_RestartLaw ==
    (Clicked /\ IsComplete(last.prev)
        /\ BackwardNearest(ClickedText, last.column) # Nothing
        /\ BackwardNearest(ClickedText, last.column) # last.prev.left)
    => bounds = [left |-> BackwardNearest(ClickedText, last.column), right |-> Nothing]

\* a restart has happened: the click left a Complete pair for another bound
C2_Restarted ==
    /\ Clicked /\ IsComplete(last.prev)
    /\ BackwardNearest(ClickedText, last.column) # Nothing
    /\ BackwardNearest(ClickedText, last.column) # last.prev.left
    /\ IsLeftOnly(bounds)
    /\ bounds.left # last.prev.left

\* ---- C3 ----------------------------------------------------------------------
\* C3: after a click at a column with no delimiter at or before it on its
\* row, the bounds are the bounds before the click, whatever state they
\* were in.
C3_NoBoundFoundIsNoOp ==
    (Clicked /\ DelimitersUpTo(ClickedText, last.column) = {})
    => bounds = last.prev

\* ---- C4 ----------------------------------------------------------------------
\* the column of the occurrence the left bound names in line i
LeftAt(i) == NthOccurrence(lines[i].text, bounds.left.value.boundary, bounds.left.value.index)

\* line i holds the field of the left bound: its opening occurrence and a
\* closing character after it
WellFormed(i) ==
    /\ Realizes(lines[i].text, bounds.left.value)
    /\ ClosersAfter(lines[i].text, bounds.left.value.boundary, LeftAt(i)) # {}

CloserAt(i) == FirstCloserAfter(lines[i].text, bounds.left.value.boundary, LeftAt(i))

\* C4: under a left-only bound, every line whose ordinal-th occurrence of
\* the kind's character is at column L and whose first closing character
\* after L is at column C has exactly the selection (L + 1, C - 1).
C4_OrdinalAlignment ==
    IsLeftOnly(bounds) =>
        \A i \in 1..Len(lines) :
            WellFormed(i) =>
                lines[i].selection = Just([start |-> LeftAt(i) + 1, stop |-> CloserAt(i) - 1])

\* a click has projected one bound onto two lines that hold the field at
\* different offsets
C4_AlignedAtDifferentOffsets ==
    /\ Clicked /\ IsLeftOnly(bounds)
    /\ WellFormed(1) /\ WellFormed(2)
    /\ LeftAt(1) # LeftAt(2)
    /\ lines[1].selection = Just([start |-> LeftAt(1) + 1, stop |-> CloserAt(1) - 1])
    /\ lines[2].selection = Just([start |-> LeftAt(2) + 1, stop |-> CloserAt(2) - 1])

\* ---- C5 ----------------------------------------------------------------------
\* C5: for every line text and every (kind, ordinal) with at least
\* ordinal + 1 occurrences of the kind's character in the text,
\* Bound(kind, ordinal).column(text) is the index of the ordinal-th occurrence.
C5_ColumnExact ==
    \A i \in 1..Len(lines) : \A ch \in Delimiters : \A n \in 0..Len(lines[i].text) :
        Realizes(lines[i].text, Bound(ch, n)) =>
            column(Bound(ch, n), lines[i].text) = NthOccurrence(lines[i].text, ch, n)

\* a click has resolved a bound of ordinal 1 and the selection of a line
\* starts right after the second occurrence
C5_SecondOccurrenceResolved ==
    /\ Clicked /\ bounds.left # Nothing
    /\ bounds.left.value.index = 1
    /\ \E i \in 1..Len(lines) :
          /\ Realizes(lines[i].text, bounds.left.value)
          /\ lines[i].selection # Nothing
          /\ lines[i].selection.value.start = LeftAt(i) + 1
          /\ LeftAt(i) > 0

\* ---- C6 ----------------------------------------------------------------------
\* C6: after a save with name n made with non-empty bounds, every line for
\* which the projection of those bounds gives a selection has tags[n] equal
\* to the characters of the line at the indices start .. stop of that
\* selection.
C6_TagIsInclusiveSlice ==
    Saved =>
        \A i \in 1..Len(lines) :
            LET s == findSelection(last.prev, lines[i].text)
            IN  isJust(s) =>
                    /\ last.name \in DOMAIN lines[i].tags
                    /\ lines[i].tags[last.name] =
                           InclusiveSlice(lines[i].text, s.value.start, s.value.stop)

\* ---- C7 ----------------------------------------------------------------------
\* C7: under non-empty bounds, a line with fewer than ordinal + 1
\* occurrences of the left bound's character has no selection.
C7_UnderAlignedNoSelection ==
    \A i \in 1..Len(lines) :
        (bounds.left # Nothing /\ ~Realizes(lines[i].text, bounds.left.value))
        => lines[i].selection = Nothing

\* ---- C8 ----------------------------------------------------------------------
\* C8: under a left-only bound, a line that holds the left bound's
\* occurrence but no closing character after it has no selection (so none
\* with a stop that is negative, out of range or less than start - 1).
C8_MalformedNoSelection ==
    \A i \in 1..Len(lines) :
        (IsLeftOnly(bounds) /\ Realizes(lines[i].text, bounds.left.value) /\ ~WellFormed(i))
        => lines[i].selection = Nothing

\* ---- C9 ----------------------------------------------------------------------
\* C9: a save with name n under a left-only bound leaves every line with
\* fewer than ordinal + 1 occurrences without an entry n if it had none, and
\* gives every line with the occurrence and a closing character after it
\* the token between them as tags[n].
C9_TagOnlyWhereRealized ==
    [][(last'.op = "save" /\ IsLeftOnly(bounds)) =>
         \A i \in 1..Len(lines) :
            /\ (~Realizes(lines[i].text, bounds.left.value) /\ last'.name \notin DOMAIN lines[i].tags)
                  => last'.name \notin DOMAIN lines'[i].tags
            /\ WellFormed(i)
                  => /\ last'.name \in DOMAIN lines'[i].tags
                     /\ lines'[i].tags[last'.name] =
                            InclusiveSlice(lines[i].text, LeftAt(i) + 1, CloserAt(i) - 1)]_vars

\* ---- C10 ---------------------------------------------------------------------
\* C10: a save made while the bounds of the form are Empty changes no
\* line's tags, no line's selection and not the bounds.
C10_EmptySaveNoEffect ==
    [][(last'.op = "save" /\ IsEmpty(saveBounds)) => UNCHANGED <<lines, bounds, saveBounds>>]_vars

\* a save was rejected on Empty bounds after an earlier save had tagged a line
C10_EmptySaveAfterTagging ==
    /\ last.op = "save" /\ IsEmpty(last.prev)
    /\ IsEmpty(bounds) /\ IsEmpty(saveBounds)
    /\ \E i \in 1..Len(lines) : DOMAIN lines[i].tags # {}

\* ---- C11 ---------------------------------------------------------------------
\* C11: right after a save made with non-empty bounds, the bounds of the
\* application and the bounds of the save form are both Empty.
C11_ResetAfterSave == Saved => (IsEmpty(bounds) /\ IsEmpty(saveBounds))

\* a save has tagged a line and left both copies of the bounds Empty
C11_SavedAndReset ==
    /\ Saved
    /\ IsEmpty(bounds) /\ IsEmpty(saveBounds)
    /\ \E i \in 1..Len(lines) : last.name \in DOMAIN lines[i].tags

\* ---- C12 ---------------------------------------------------------------------
\* C12: in every reachable state the right bound is set only if the left
\* bound is set, in the application and in the save form.
C12_RightOnlyWithLeft ==
    /\ bounds.right # Nothing => bounds.left # Nothing
    /\ saveBounds.right # Nothing => saveBounds.left # Nothing

\* a confirming click has set the right bound next to the left bound
C12_RightSetWithLeft ==
    /\ Clicked /\ IsLeftOnly(last.prev)
    /\ bounds.right # Nothing /\ bounds.left = last.prev.left

\* ---- C13 ---------------------------------------------------------------------
\* the column of the occurrence the right bound names in line i
RightAt(i) == NthOccurrence(lines[i].text, bounds.right.value.boundary, bounds.right.value.index)

\* line i holds what the bounds need: the occurrence of the left bound and,
\* after it, a closing character (no right bound) or the occurrence of the
\* right bound
Derivable(i) ==
    /\ bounds.left # Nothing
    /\ Realizes(lines[i].text, bounds.left.value)
    /\ IF bounds.right = Nothing
       THEN ClosersAfter(lines[i].text, bounds.left.value.boundary, LeftAt(i)) # {}
       ELSE /\ Realizes(lines[i].text, bounds.right.value)
            /\ RightAt(i) > LeftAt(i)

\* C13 as stated: every selection of a line that holds the left bound's
\* occurrence and a closing character (or the right bound's occurrence)
\* after it has start <= stop.
C13_StartAtMostStop ==
    \A i \in 1..Len(lines) :
        Derivable(i) =>
            /\ lines[i].selection # Nothing
            /\ lines[i].selection.value.start <= lines[i].selection.value.stop

\* C13 amended: such a selection has start <= stop + 1, and start = stop + 1
\* only when nothing lies between the two delimiters.
C13_StartAtMostStopPlusOne ==
    \A i \in 1..Len(lines) :
        Derivable(i) =>
            /\ lines[i].selection # Nothing
            /\ lines[i].selection.value.start <= lines[i].selection.value.stop + 1
            /\ lines[i].selection.value.start = lines[i].selection.value.stop + 1
                  => IF bounds.right = Nothing THEN CloserAt(i) = LeftAt(i) + 1
                     ELSE RightAt(i) = LeftAt(i) + 1

\* a click has selected an empty field on one line and a non-empty field on
\* the other
C13_EmptyAndNonEmptyField ==
    /\ Clicked
    /\ \E i, j \in 1..Len(lines) :
          /\ Derivable(i) /\ Derivable(j)
          /\ lines[i].selection.value.start = lines[i].selection.value.stop + 1
          /\ lines[j].selection.value.start <= lines[j].selection.value.stop

\* ---- C14 ---------------------------------------------------------------------
\* C14: a step that takes the bounds from non-empty to Empty is a save made
\* with non-empty bounds, never a click.
C14_OnlySaveEmpties ==
    (~IsEmpty(last.prev) /\ IsEmpty(bounds)) => Saved

\* ---- C15 ---------------------------------------------------------------------
\* the indices at or after column c that hold a delimiter
DelimitersFrom(text, c) == {i \in c..(Len(text) - 1) : text[i + 1] \in Delimiters}

\* C15: the scans from the clicked column finish in both directions (no
\* click handler ends in the scan running away past the end of the line),
\* and the forward scan returns no bound when no delimiter occurs at or after
\* the column.
C15_ScanStaysInside ==
    last.op = "click" =>
        /\ ~last.thrown
        /\ \A increment \in {-1, 1} :
              closestBound(ClickedText, last.column, increment).tag \in {"Just", "Nothing"}
        /\ DelimitersFrom(ClickedText, last.column) = {}
              => closestBound(ClickedText, last.column, 1) = Nothing

\* ---- C16 ---------------------------------------------------------------------
\* the greatest index at or before column c that holds a delimiter
NearestIndexUpTo(text, c) ==
    CHOOSE k \in DelimitersUpTo(text, c) : \A j \in DelimitersUpTo(text, c) : j <= k

\* C16: the backward scan from the clicked column returns the bound of the
\* delimiter at the greatest index i <= column (kind = that character,
\* ordinal = its occurrences before i), Bound.column of the result is i, and
\* it returns no bound exactly when no delimiter occurs at or before the
\* column.
C16_BackwardResolution ==
    last.op = "click" =>
        LET found == closestBound(ClickedText, last.column, -1)
        IN  /\ found = Nothing <=> DelimitersUpTo(ClickedText, last.column) = {}
            /\ found # Nothing =>
                  LET i == NearestIndexUpTo(ClickedText, last.column)
                  IN  /\ found.tag = "Just"
                      /\ found.value.boundary = ClickedText[i + 1]
                      /\ found.value.index =
                            Cardinality({j \in Occurrences(ClickedText, ClickedText[i + 1]) : j < i})
                      /\ column(found.value, ClickedText) = i

\* a click right of a delimiter has resolved it: the scan moved back from the
\* clicked column and stopped at a delimiter inside the line
C16_ResolvedBehindColumn ==
    /\ Clicked /\ IsEmpty(last.prev)
    /\ bounds.left # Nothing
    /\ column(bounds.left.value, ClickedText) < last.column
    /\ column(bounds.left.value, ClickedText) > 0

\* ---- C17 ---------------------------------------------------------------------
\* the bound of the delimiter at the least index at or after column c
ForwardNearest(text, c) ==
    IF DelimitersFrom(text, c) = {} THEN Nothing
    ELSE LET i == CHOOSE k \in DelimitersFrom(text, c) :
                      \A j \in DelimitersFrom(text, c) : k <= j
         IN  Just(Bound(text[i + 1],
                        Cardinality({j \in Occurrences(text, text[i + 1]) : j < i})))

\* C17: a click in LeftOnly whose backward scan finds the held left bound
\* completes the pair: the left bound is kept, the right bound is the nearest
\* delimiter at or after the clicked column of the clicked row, and every line
\* that has both occurrences, at columns L and R, is selected over
\* (L + 1, R - 1).
C17_LeftOnlyToComplete ==
    (/\ last.op = "click"
     /\ IsLeftOnly(last.prev)
     /\ BackwardNearest(ClickedText, last.column) = last.prev.left)
    => /\ IsComplete(bounds)
       /\ bounds.left = last.prev.left
       /\ bounds.right = ForwardNearest(ClickedText, last.column)
       /\ \A i \in 1..Len(lines) :
             LET text == lines[i].text
                 l == bounds.left.value
                 r == bounds.right.value
             IN  (Realizes(text, l) /\ Realizes(text, r)) =>
                    lines[i].selection =
                       Just(Selection(NthOccurrence(text, l.boundary, l.index) + 1,
                                      NthOccurrence(text, r.boundary, r.index) - 1))

\* ---- C18 ---------------------------------------------------------------------
\* a session with two tag names: the first line is any text shorter than
\* MaxLen, the second a reference line
BatchesNames == {<<t1, t2>> : t1 \in Texts(MaxLen - 1), t2 \in Corpus}

\* two values typed into the name input of the form
TagNamesTwo == {"ip", "request"}

InitNames ==
    /\ \E data \in BatchesNames : lines = updated(fromArray(data), NewBounds)
    /\ bounds = NewBounds
    /\ saveBounds = NewBounds
    /\ last = Event("init", 0, 0, "", NewBounds, FALSE)

NextNames ==
    \/ \E row \in Rows : \E col \in Columns(row) : Click(row, col)
    \/ \E name \in TagNamesTwo : Submit(name)

SpecNames == InitNames /\ [][NextNames]_vars

\* the entry of name n in a tag map, Nothing when the map has none
Entry(tags, n) == IF n \in DOMAIN tags THEN Just(tags[n]) ELSE Nothing

\* C18: no step changes the number, the order or the text of the lines; a
\* click changes no line's tags; tags change only in a save made with
\* non-empty bounds; and a save changes, on each line, only the entry of the
\* saved name.
C18_Frame ==
    [][/\ Len(lines') = Len(lines)
       /\ \A i \in 1..Len(lines) :
             /\ lines'[i].text = lines[i].text
             /\ last'.op = "click" => lines'[i].tags = lines[i].tags
             /\ lines'[i].tags # lines[i].tags
                   => (last'.op = "save" /\ ~IsEmpty(last'.prev))
             /\ last'.op = "save" =>
                   \A n \in TagNamesTwo \ {last'.name} :
                      Entry(lines'[i].tags, n) = Entry(lines[i].tags, n)]_vars

\* a save of one name has been made on a line that holds the other name too
C18_SecondNameSaved ==
    /\ Saved
    /\ \E i \in 1..Len(lines) :
          /\ DOMAIN lines[i].tags = TagNamesTwo
          /\ lines[i].tags["ip"] # lines[i].tags["request"]

\* ---- C19 ---------------------------------------------------------------------
\* The single-bound variant (main.ts).  Its Bound class is the one of the
\* two-bound variant, character for character, so column and
\* closingCharacter stand for both; a Line's selection is a Selection or
\* null, written here Just(selection) and Nothing.

\* GroupSelector.indexOfBound(text, boundary)
GroupSelector_indexOfBound(text, boundary) == Len(split(text, boundary)) - 1

\* GroupSelector.closestLeftBound(text, index)
RECURSIVE closestLeftBound(_, _)
closestLeftBound(text, index) ==
    LET key == matchKey(text, index)
    IN  IF key # 0
        THEN Just(Bound(BoundChar[key],
                        GroupSelector_indexOfBound(substring(text, 0, index), BoundChar[key])))
        ELSE IF index > 0 THEN closestLeftBound(text, index - 1)
        ELSE Nothing

\* GroupSelector.findBound(lines, row, column)
findBound(ls, row, col) == closestLeftBound(ls[row + 1].text, col)

\* GroupSelector.findSelection(text, bound)
GroupSelector_findSelection(text, bound) ==
    LET col == column(bound, text)
        sub == substringFrom(text, col + 1)
    IN  Selection(col + 1, col + indexOf(sub, closingCharacter(bound)))

\* GroupSelector.select(lines, bound); a missing bound selects whole lines
GroupSelector_select(ls, bound) ==
    [i \in 1..Len(ls) |->
        IF bound = Nothing THEN Selection(0, Len(ls[i].text) - 1)
        ELSE GroupSelector_findSelection(ls[i].text, bound)]

\* App.selectAtChar of main.ts on the span of (row, column): the lines and
\* the bound of the App afterwards
Main_selectAtChar(ls, bound, row, col) ==
    LET found == findBound(ls, row, col)
    IN  IF isJust(found)
        THEN LET selections == GroupSelector_select(ls, found.value)
             IN  [lines |-> [i \in 1..Len(ls) |->
                                [ls[i] EXCEPT !.selection = Just(selections[i])]],
                  bound |-> Just(found.value)]
        ELSE [lines |-> ls, bound |-> bound]

\* App.addTag(name, bound) of main.ts: the lines afterwards
Main_addTag(ls, name, bound) ==
    LET selections == GroupSelector_select(ls, bound)
    IN  [i \in 1..Len(ls) |->
            [ls[i] EXCEPT !.tags =
                (name :> substring(ls[i].text, selections[i].start, selections[i].stop + 1))
                   @@ ls[i].tags]]

\* the lines as main.ts holds them before the first click: no selection
Unselected(ls) == [i \in 1..Len(ls) |-> [ls[i] EXCEPT !.selection = Nothing]]

\* C19: for the same lines, a click made from Empty leaves the two-bound
\* variant with the left bound the single-bound variant finds at that span
\* and no right bound, with the same selection on every line, and with the
\* save form enabled exactly when the single-bound form is; and the save that
\* follows has written, on every line, the tags the single-bound save writes.
C19_SubsumesSingleBound ==
    /\ (Clicked /\ IsEmpty(last.prev)) =>
          LET single == Main_selectAtChar(Unselected(lines), Nothing, last.row, last.column)
          IN  /\ bounds.left = single.bound
              /\ bounds.right = Nothing
              /\ \A i \in 1..Len(lines) : lines[i].selection = single.lines[i].selection
              /\ ~empty(saveBounds) <=> isJust(single.bound)
    /\ (Saved /\ IsLeftOnly(last.prev)) =>
          \A i \in 1..Len(lines) :
             lines[i].tags = Main_addTag(lines, last.name, last.prev.left.value)[i].tags

\* a first click has found a bound and selected a non-empty field, the two
\* lines over different columns
C19_FirstClickSelects ==
    /\ Clicked /\ IsEmpty(last.prev) /\ IsLeftOnly(bounds)
    /\ \A i \in 1..Len(lines) : lines[i].selection # Nothing
    /\ \E i \in 1..Len(lines) :
          lines[i].selection.value.start <= lines[i].selection.value.stop
    /\ lines[1].selection # lines[2].selection

\* ---- C20 ---------------------------------------------------------------------
\* C20: after a click at a column of the clicked row that holds no delimiter
\* and that resolves a bound (the bounds are LeftOnly or Complete
\* afterwards), the selection of the clicked row contains the clicked column.
C20_SelectionCoversClick ==
    (/\ Clicked
     /\ ClickedText[last.column + 1] \notin Delimiters
     /\ ~IsEmpty(bounds))
    => /\ lines[last.row + 1].selection # Nothing
       /\ contains(lines[last.row + 1].selection.value, last.column)

\* ---- C21 ---------------------------------------------------------------------
\* C21: in every state, after every click and every save, the selection
\* stored on each line is what Bounds.select gives for the current bounds on
\* that line's text; and every line has no selection whenever the bounds are
\* Empty.
C21_SelectionsMirrorBounds ==
    \A i \in 1..Len(lines) :
       /\ lines[i].selection = findSelection(bounds, lines[i].text)
       /\ IsEmpty(bounds) => lines[i].selection = Nothing
       /\ ~IsEmpty(bounds) => lines[i].selection # Nothing

\* right after a save made from Complete bounds that wrote a non-empty tag:
\* the bounds are Empty and no line has a selection
C21_ClearedRightAfterSave ==
    /\ Saved /\ IsComplete(last.prev)
    /\ IsEmpty(bounds)
    /\ \A i \in 1..Len(lines) : lines[i].selection = Nothing
    /\ \E i \in 1..Len(lines) :
          /\ last.name \in DOMAIN lines[i].tags
          /\ Len(lines[i].tags[last.name]) > 0
====
